---- MODULE Spec2Model ----
(***************************************************************************)
(* findBlockBeforeDate.ts: binary search of a chain, through a JSON-RPC    *)
(* endpoint, for the latest block whose timestamp is strictly before a     *)
(* target date.                                                            *)
(*                                                                         *)
(* One run of main() is modelled.  The code between two awaits runs        *)
(* without interruption (single-threaded promises), so each action is one  *)
(* such stretch: it consumes the response of the outstanding RPC, runs the *)
(* code up to the next RPC and issues it, or ends the run.                 *)
(*                                                                         *)
(* Numbers that the date parser handles exceed 2^31, so a JS number n is   *)
(* kept as the pair <<q, r>> with n = 1000*q + r and 0 <= r < 1000         *)
(* (q = Math.floor(n / 1000)).  Literals have at most MaxDigits digits,    *)
(* far below 2^53, where Number() is exact.                                *)
(***************************************************************************)
EXTENDS Integers, Sequences, FiniteSets, TLC

\* ------------------------------------------------------------------ bounds
\* highest value of latestNum (the chain has heights 0..latestNum)
MaxHeight == 3
\* block timestamps are drawn from 0..MaxTs
MaxTs == 2
\* longest numeric literal given to the date parser
MaxDigits == 12

\* 1e10 = ThresholdK * 1000: the seconds / milliseconds threshold
ThresholdK == 10000000

\* null / undefined, for the variables that hold objects
Null == [null |-> TRUE]

\* targetSec before the parser has returned
Unparsed == <<>>

VARIABLES
    dateInput,   \* process.argv[3]: the date expression (or NoArg)
    chain,       \* the endpoint's chain: chain[h+1] is the timestamp of height h
    pc,          \* where the run is suspended
    targetSec,   \* main's targetSec / findBlockBeforeDate's targetUnixSec
    latestNum,   \* findBlockBeforeDate's locals; the numeric ones are held at 0
                 \* until they are assigned and are not read before
    latest,
    lo,
    hi,
    mid,
    candidate,
    pending,     \* RPC requests sent and not yet answered
    calls,       \* every RPC request sent so far, in order (rpcId = Len(calls) + 1)
    observed,    \* every block getBlockByNumber has returned, with the height asked
    answers,     \* how the endpoint answered the requests, in order
    outcome,     \* "running", "found", "notFound", "error" or "usage"
    result       \* what findBlockBeforeDate returned

vars == <<dateInput, chain, pc, targetSec, latestNum, latest, lo, hi, mid,
          candidate, pending, calls, observed, answers, outcome, result>>

\* ------------------------------------------------------- numbers <<q, r>>
Num(i) == <<i \div 1000, i % 1000>>

NumLT(a, b) == a[1] < b[1] \/ (a[1] = b[1] /\ a[2] < b[2])

NumLE(a, b) == a = b \/ NumLT(a, b)

NumNeg(a) == IF a[2] = 0 THEN <<-a[1], 0>> ELSE <<-a[1] - 1, 1000 - a[2]>>

\* Math.floor(n / 1000)
FloorDiv1000(a) == Num(a[1])

RECURSIVE DigitsValue(_)
DigitsValue(ds) ==
    IF ds = <<>> THEN 0
    ELSE 10 * DigitsValue(SubSeq(ds, 1, Len(ds) - 1)) + ds[Len(ds)]

\* Number(input) of a literal matching /^-?\d+$/
NumberOf(lit) ==
    LET n == Len(lit.digits)
        k == IF n > 3 THEN n - 3 ELSE 0
        mag == <<DigitsValue(SubSeq(lit.digits, 1, k)),
                 DigitsValue(SubSeq(lit.digits, k + 1, n))>>
    IN  IF lit.neg THEN NumNeg(mag) ELSE mag

\* Number.isFinite(Number(input)): a decimal literal of at most 308 digits is
\* below Number.MAX_VALUE (about 1.8e308); longer ones are taken as Infinity
NumberIsFinite(lit) == Len(lit.digits) <= 308

\* -------------------------------------------------------- date expressions
\* a string matching /^-?\d+$/ once trimmed: optional sign, decimal digits
Lit(neg, digits) == [kind |-> "literal", neg |-> neg, digits |-> digits]

\* any other string that Date.parse accepts, ms being the epoch milliseconds
DateStr(ms) == [kind |-> "date", valid |-> TRUE, ms |-> ms]

\* a string for which Date.parse gives NaN
BadDate == [kind |-> "date", valid |-> FALSE]

\* argv[3] absent
NoArg == [kind |-> "missing"]

Throw == [threw |-> TRUE]

Return(v) == [threw |-> FALSE, value |-> v]

\* Number.isNaN(Date.parse(input))
DateParseIsNaN(input) == ~input.valid

DateParse(input) == Num(input.ms)

\* parseTargetToUnixSeconds without the Number.isNaN test of line 55: the
\* unparseable date goes on as a number (0 stands for it)
parseWithoutNaNTest(input) ==
    IF input.kind = "literal"
    THEN LET n == NumberOf(input)
         IN  IF ~NumberIsFinite(input) THEN Throw
             ELSE Return(IF NumLT(<<ThresholdK, 0>>, n) THEN FloorDiv1000(n) ELSE n)
    ELSE IF DateParseIsNaN(input) THEN Return(Num(0))
         ELSE Return(FloorDiv1000(DateParse(input)))

parseTargetToUnixSeconds(input) ==
    IF input.kind = "literal"
    THEN LET n == NumberOf(input)
         IN  IF ~NumberIsFinite(input) THEN Throw
             ELSE Return(IF NumLT(<<ThresholdK, 0>>, n) THEN FloorDiv1000(n) ELSE n)
    ELSE IF DateParseIsNaN(input) THEN Throw
         ELSE Return(FloorDiv1000(DateParse(input)))

\* ---------------------------------------------------------------- the wire
RECURSIVE ToHexDigits(_)
ToHexDigits(n) ==
    IF n < 16 THEN <<n>> ELSE Append(ToHexDigits(n \div 16), n % 16)

\* "0x" + n.toString(16)
ToHex(n) == [hex |-> ToHexDigits(n)]

RECURSIVE HexValue(_)
HexValue(ds) ==
    IF ds = <<>> THEN 0
    ELSE 16 * HexValue(SubSeq(ds, 1, Len(ds) - 1)) + ds[Len(ds)]

\* BigInt(hex); BigInt(null) throws a TypeError
hexToBigInt(h) == IF h = Null THEN Throw ELSE Return(HexValue(h.hex))

HashOf(h) == <<"hash", h>>

\* the RpcBlock the endpoint holds for height h
RpcBlock(h) ==
    [number |-> ToHex(h), timestamp |-> ToHex(chain[h + 1]), hash |-> HashOf(h),
     parentHash |-> IF h = 0 THEN HashOf(-1) ELSE HashOf(h - 1)]

BlockNumberReq == [method |-> "eth_blockNumber", params |-> <<>>]

GetBlockReq(hex) == [method |-> "eth_getBlockByNumber", params |-> <<hex, FALSE>>]

\* how the endpoint answers one request: a result, a result of null, a non-2xx
\* status, or a JSON-RPC error object
Responses == {"ok", "missing", "httpError", "rpcError"}

\* json.result of an answered request
JsonResult(req, resp) ==
    IF resp = "missing" THEN Null
    ELSE IF req.method = "eth_blockNumber" THEN ToHex(Len(chain) - 1)
    ELSE LET h == HexValue(req.params[1].hex)
         IN  IF h < Len(chain) THEN RpcBlock(h) ELSE Null

rpc(req, resp) ==
    IF resp \in {"httpError", "rpcError"} THEN Throw
    ELSE Return(JsonResult(req, resp))

getLatestBlockNumber(req, resp) ==
    LET hexNum == rpc(req, resp)
    IN  IF hexNum.threw THEN Throw ELSE hexToBigInt(hexNum.value)

getBlockByNumber(req, resp) ==
    LET block == rpc(req, resp)
    IN  IF block.threw THEN Throw
        ELSE IF block.value = Null THEN Throw
        ELSE block

\* Number(hexToBigInt(b.timestamp))
TimestampOf(b) == hexToBigInt(b.timestamp).value

\* ------------------------------------------------------------ initial state
\* timestamps are hex-encoded naturals; any order of them is a possible chain
Chains == UNION {[1..n -> 0..MaxTs] : n \in 1..(MaxHeight + 1)}

MainInputs ==
    {Lit(FALSE, <<d>>) : d \in 0..(MaxTs + 1)}
    \cup {Lit(TRUE, <<1>>),
          Lit(FALSE, <<1, 0, 0, 0, 0, 0, 0, 0, 0, 0, 1>>),
          Lit(TRUE, <<1, 0, 0, 0, 0, 0, 0, 0, 0, 0, 1>>)}
    \cup {DateStr(ms) : ms \in {-1, 999, 2000}}
    \cup {BadDate, NoArg}

InitRun ==
    /\ pc = "main"
    /\ targetSec = Unparsed
    /\ latestNum = 0
    /\ latest = Null
    /\ lo = 0
    /\ hi = 0
    /\ mid = 0
    /\ candidate = Null
    /\ pending = <<>>
    /\ calls = <<>>
    /\ observed = {}
    /\ answers = <<>>
    /\ outcome = "running"
    /\ result = Null

Init ==
    /\ dateInput \in MainInputs
    /\ chain \in Chains
    /\ InitRun

\* ------------------------------------------------------------------- steps
\* Send that fires the request a second time without awaiting the first
SendTwice(rest, req, at) ==
    /\ pending' = Append(Append(rest, req), req)
    /\ calls' = Append(Append(calls, req), req)
    /\ pc' = at
    /\ UNCHANGED <<outcome, result>>

\* await rpc(...): the request goes out and the run is suspended at `at`
Send(rest, req, at) ==
    /\ pending' = Append(rest, req)
    /\ calls' = Append(calls, req)
    /\ pc' = at
    /\ UNCHANGED <<outcome, result>>

\* the run ends: main prints the result (or the not-found message), or
\* main().catch prints the error and exits with status 1
Finish(rest, out, res) ==
    /\ pending' = rest
    /\ calls' = calls
    /\ pc' = "exit"
    /\ outcome' = out
    /\ result' = res

\* main, lines 120-127: an argument is missing
MainUsage ==
    /\ pc = "main"
    /\ dateInput = NoArg
    /\ Finish(pending, "usage", Null)
    /\ UNCHANGED <<dateInput, chain, targetSec, latestNum, latest, lo, hi, mid,
                   candidate, observed, answers>>

\* main, line 129: parseTargetToUnixSeconds throws
MainInvalidInput ==
    /\ pc = "main"
    /\ dateInput # NoArg
    /\ parseTargetToUnixSeconds(dateInput).threw
    /\ Finish(pending, "error", Null)
    /\ UNCHANGED <<dateInput, chain, targetSec, latestNum, latest, lo, hi, mid,
                   candidate, observed, answers>>

\* main, lines 129-131, and findBlockBeforeDate up to the await of line 72
MainStart ==
    /\ pc = "main"
    /\ dateInput # NoArg
    /\ ~parseTargetToUnixSeconds(dateInput).threw
    /\ targetSec' = parseTargetToUnixSeconds(dateInput).value
    /\ Send(pending, BlockNumberReq, "latestNum")
    /\ UNCHANGED <<dateInput, chain, latestNum, latest, lo, hi, mid,
                   candidate, observed, answers>>

\* Abort where a failed probe is caught and the best candidate so far returned
AbortReturnsCandidate(rest) ==
    IF candidate = Null THEN Finish(rest, "error", Null)
    ELSE Finish(rest, "found", [number |-> candidate.n, hash |-> candidate.hash,
                                timestamp |-> candidate.ts])

\* an awaited RPC throws: nothing catches it before main().catch
Abort(rest) == Finish(rest, "error", Null)

\* line 72 resumes with the latest height; line 73 asks for that block
OnLatestNumber(resp) ==
    /\ pc = "latestNum"
    /\ pending # <<>>
    /\ answers' = Append(answers, resp)
    /\ LET r == getLatestBlockNumber(Head(pending), resp)
       IN  IF r.threw
           THEN /\ Abort(Tail(pending))
                /\ UNCHANGED latestNum
           ELSE /\ latestNum' = r.value
                /\ Send(Tail(pending), GetBlockReq(ToHex(r.value)), "latest")
    /\ UNCHANGED <<dateInput, chain, targetSec, latest, lo, hi, mid, candidate,
                   observed>>

\* FastPath without the test of line 77
FastPathNoEpochTest(target, latestTs) ==
    IF NumLT(Num(latestTs), target) THEN "latest" ELSE "search"

\* FastPath without the test of line 80
FastPathNoLatestTest(target, latestTs) ==
    IF NumLE(target, Num(0)) THEN "null" ELSE "search"

\* lines 77-87: which way findBlockBeforeDate goes once latestTs is known
FastPath(target, latestTs) ==
    IF NumLE(target, Num(0)) THEN "null"
    ELSE IF NumLT(Num(latestTs), target) THEN "latest"
    ELSE "search"

\* Midpoint that walks up from lo
MidpointLinear(l, h) == l

\* line 95: (lo + hi) >> 1n
Midpoint(l, h) == (l + h) \div 2

\* ProbeUpdate with ts <= target for ts < target
ProbeUpdateNonStrict(l, h, c, m, b, target) ==
    LET ts == TimestampOf(b)
    IN  IF NumLE(Num(ts), target)
        THEN [lo |-> m + 1, hi |-> h, candidate |-> [n |-> m, ts |-> ts, hash |-> b.hash]]
        ELSE [lo |-> l, hi |-> m - 1, candidate |-> c]

\* ProbeUpdate that moves lo without recording the candidate
ProbeUpdateNoCandidate(l, h, c, m, b, target) ==
    LET ts == TimestampOf(b)
    IN  IF NumLT(Num(ts), target)
        THEN [lo |-> m + 1, hi |-> h, candidate |-> c]
        ELSE [lo |-> l, hi |-> m - 1, candidate |-> c]

\* ProbeUpdate that keeps the first candidate it found
ProbeUpdateFirstCandidate(l, h, c, m, b, target) ==
    LET ts == TimestampOf(b)
    IN  IF NumLT(Num(ts), target)
        THEN [lo |-> m + 1, hi |-> h,
              candidate |-> IF c = Null THEN [n |-> m, ts |-> ts, hash |-> b.hash] ELSE c]
        ELSE [lo |-> l, hi |-> m - 1, candidate |-> c]

\* lines 99-104: the new lo, hi and candidate after block b of height m
ProbeUpdate(l, h, c, m, b, target) ==
    LET ts == TimestampOf(b)
    IN  IF NumLT(Num(ts), target)
        THEN [lo |-> m + 1, hi |-> h, candidate |-> [n |-> m, ts |-> ts, hash |-> b.hash]]
        ELSE [lo |-> l, hi |-> m - 1, candidate |-> c]

\* lines 107-116: what the search returns
ReturnValue(c) ==
    IF c = Null THEN Null
    ELSE [number |-> c.n, hash |-> c.hash, timestamp |-> c.ts]

Outcome(res) == IF res = Null THEN "notFound" ELSE "found"

\* lines 94-96 and 107-116: the loop test with lo = l, hi = h, candidate = c;
\* either the next probe goes out or the search returns
Search(rest, l, h, c) ==
    /\ lo' = l
    /\ hi' = h
    /\ candidate' = c
    /\ IF l <= h
       THEN /\ mid' = Midpoint(l, h)
            /\ Send(rest, GetBlockReq(ToHex(Midpoint(l, h))), "probe")
       ELSE /\ mid' = mid
            /\ Finish(rest, Outcome(ReturnValue(c)), ReturnValue(c))

\* line 73 resumes with the latest block; lines 74-96
OnLatestBlock(resp) ==
    /\ pc = "latest"
    /\ pending # <<>>
    /\ answers' = Append(answers, resp)
    /\ LET r == getBlockByNumber(Head(pending), resp)
       IN  IF r.threw
           THEN /\ Abort(Tail(pending))
                /\ UNCHANGED <<latest, lo, hi, mid, candidate, observed>>
           ELSE LET latestTs == TimestampOf(r.value)
                    path == FastPath(targetSec, latestTs)
                IN  /\ latest' = r.value
                    /\ observed' = observed \cup {[height |-> latestNum, block |-> r.value]}
                    /\ IF path = "null"
                       THEN /\ Finish(Tail(pending), "notFound", Null)
                            /\ UNCHANGED <<lo, hi, mid, candidate>>
                       ELSE IF path = "latest"
                       THEN /\ Finish(Tail(pending), "found",
                                      [number |-> latestNum, hash |-> r.value.hash,
                                       timestamp |-> latestTs])
                            /\ UNCHANGED <<lo, hi, mid, candidate>>
                       ELSE Search(Tail(pending), 0, latestNum, Null)
    /\ UNCHANGED <<dateInput, chain, targetSec, latestNum>>

\* line 96 resumes with block mid; lines 97-104, then the loop test again
OnProbe(resp) ==
    /\ pc = "probe"
    /\ pending # <<>>
    /\ answers' = Append(answers, resp)
    /\ LET r == getBlockByNumber(Head(pending), resp)
       IN  IF r.threw
           THEN /\ Abort(Tail(pending))
                /\ UNCHANGED <<lo, hi, mid, candidate, observed>>
           ELSE LET u == ProbeUpdate(lo, hi, candidate, mid, r.value, targetSec)
                IN  /\ observed' = observed \cup {[height |-> mid, block |-> r.value]}
                    /\ Search(Tail(pending), u.lo, u.hi, u.candidate)
    /\ UNCHANGED <<dateInput, chain, targetSec, latestNum, latest>>

Next ==
    \/ MainUsage
    \/ MainInvalidInput
    \/ MainStart
    \/ \E resp \in Responses : OnLatestNumber(resp)
    \/ \E resp \in Responses : OnLatestBlock(resp)
    \/ \E resp \in Responses : OnProbe(resp)

Spec == Init /\ [][Next]_vars

\* the endpoint answers every request and the event loop runs every
\* continuation that is ready
FairSpec == Spec /\ WF_vars(Next)

\* ----------------------------------------------- the parser on its own
Digits01(n) == [1..n -> {0, 1}]

\* every literal of at most MaxDigits digits 0 and 1, with and without sign:
\* 10000000000 (1e10), 10000000001, their negatives and their neighbours
ParseInputs ==
    {Lit(neg, ds) : neg \in BOOLEAN, ds \in UNION {Digits01(n) : n \in 1..MaxDigits}}
    \cup {DateStr(ms) : ms \in {-1, 999, 2000}}
    \cup {BadDate}

InitParse ==
    /\ dateInput \in ParseInputs
    /\ chain = <<0>>
    /\ InitRun

NextParse == MainInvalidInput \/ MainStart

SpecParse == InitParse /\ [][NextParse]_vars

\* ------------------------------------------------------------- vocabulary
LatestHeight == Len(chain) - 1

TsAt(h) == chain[h + 1]

\* timestamps are non-decreasing in height
Monotone == \A h \in 0..(LatestHeight - 1) : TsAt(h) <= TsAt(h + 1)

\* height h holds a block strictly before the target
Qualifies(h) == NumLT(Num(TsAt(h)), targetSec)

\* findBlockBeforeDate has returned (a block or null)
Returned == pc = "exit" /\ outcome \in {"found", "notFound"}

\* 0 < target <= latestTs: neither fast path applies
InSearchRange ==
    /\ targetSec # Unparsed
    /\ NumLT(Num(0), targetSec)
    /\ NumLE(targetSec, Num(TsAt(LatestHeight)))

\* the loop of lines 94-105 has been entered: its first probe went out (the
\* first two calls are the latest height and the latest block)
Searched == Len(calls) > 2

\* an RPC of this run failed, or came back without a result
OracleFailed == \E i \in 1..Len(answers) : answers[i] # "ok"

\* heights asked for by the loop, in order
Probes == [i \in 1..(Len(calls) - 2) |-> HexValue(calls[i + 2].params[1].hex)]

RECURSIVE Log2Floor(_)
Log2Floor(n) == IF n <= 1 THEN 0 ELSE 1 + Log2Floor(n \div 2)

\* ------------------------------------------------------------------ claims
\* |n| of a literal
Magnitude(lit) == NumberOf([lit EXCEPT !.neg = FALSE])

\* what the unit rule stated on the magnitude gives for a literal
ByMagnitude(lit) ==
    IF NumLT(<<ThresholdK, 0>>, Magnitude(lit))
    THEN FloorDiv1000(NumberOf(lit))
    ELSE NumberOf(lit)

\* the parser has run on a numeric literal and returned
ParsedLiteral == pc # "main" /\ dateInput.kind = "literal" /\ targetSec # Unparsed

\* C7: for every optional-sign all-digit literal n, parseTargetToUnixSeconds
\* returns floor(n / 1000) when the magnitude of n exceeds 1e10 and n itself
\* otherwise, for positive and negative n alike.
C7_UnitsByMagnitude == ParsedLiteral => targetSec = ByMagnitude(dateInput)

\* C7, the part the code satisfies: every literal n >= -1e10 is parsed as the
\* magnitude rule says; only literals below -1e10 are returned unchanged.
C7_HoldsFromMinusThreshold ==
    ParsedLiteral =>
        IF NumLE(NumNeg(<<ThresholdK, 0>>), NumberOf(dateInput))
        THEN targetSec = ByMagnitude(dateInput)
        ELSE targetSec = NumberOf(dateInput) /\ targetSec # ByMagnitude(dateInput)

\* C7: a positive literal above 1e10 has been read as milliseconds
C7_MillisecondsSeen ==
    /\ ParsedLiteral
    /\ ~dateInput.neg
    /\ NumLT(<<ThresholdK, 0>>, NumberOf(dateInput))
    /\ targetSec = FloorDiv1000(NumberOf(dateInput))
    /\ NumberOf(dateInput)[2] # 0

\* C1: on a chain with non-decreasing timestamps and 0 < target <= latestTs, a
\* returned block is the chain's block at the returned height, its timestamp
\* is strictly below the target, and no greater height in [0, latestHeight]
\* has a timestamp strictly below the target.
C1_HighestBlockBefore ==
    (Monotone /\ InSearchRange /\ Returned /\ outcome = "found") =>
        /\ result.number \in 0..LatestHeight
        /\ result.timestamp = TsAt(result.number)
        /\ result.hash = HashOf(result.number)
        /\ NumLT(Num(result.timestamp), targetSec)
        /\ \A h \in 0..LatestHeight : h > result.number => ~Qualifies(h)

\* C1: the search returned the higher of two blocks that share the qualifying
\* timestamp, below a block at the target (like [100,200,200,300,...], 250)
C1_DuplicateTimestamps ==
    /\ Monotone /\ InSearchRange /\ Returned /\ outcome = "found"
    /\ Searched
    /\ result.number >= 1
    /\ result.number < LatestHeight
    /\ TsAt(result.number - 1) = TsAt(result.number)

\* C2: with target <= 0 a call that returns returns null, whatever the chain
\* holds, straight after the latest block is fetched: no height is probed and
\* no block is ever returned.  (The test of line 77 comes after the awaits of
\* lines 72-73; a run whose fetch fails ends with the error, as in C5.)
C2_NullForNonPositiveTarget ==
    (pc = "exit" /\ targetSec # Unparsed /\ NumLE(targetSec, Num(0))) =>
        /\ Len(calls) <= 2
        /\ ~Searched
        /\ outcome # "found"
        /\ result = Null
        /\ ~OracleFailed => (outcome = "notFound" /\ Len(calls) = 2)

\* C2: target <= 0 gave null although block 0 exists, on a chain of several
\* blocks
C2_NullSeen ==
    /\ pc = "exit" /\ targetSec # Unparsed /\ NumLE(targetSec, Num(0))
    /\ ~OracleFailed
    /\ outcome = "notFound"
    /\ LatestHeight >= 2

\* C3: a target greater than the latest block's timestamp yields exactly the
\* latest block, its height, hash and timestamp being those of the block
\* fetched at latestHeight, with no probe.
C3_LatestBlock ==
    (targetSec # Unparsed /\ latest # Null /\ NumLT(Num(TimestampOf(latest)), targetSec)) =>
        /\ pc = "exit"
        /\ outcome = "found"
        /\ result = [number |-> LatestHeight, hash |-> latest.hash,
                     timestamp |-> TimestampOf(latest)]
        /\ latest = RpcBlock(LatestHeight)
        /\ Len(calls) = 2

\* C3: the latest block came back for a target beyond it
C3_LatestSeen ==
    /\ targetSec # Unparsed /\ latest # Null
    /\ NumLT(Num(TimestampOf(latest)), targetSec)
    /\ outcome = "found"
    /\ LatestHeight >= 2

\* C4: on a chain with non-decreasing timestamps and 0 < target <= latestTs,
\* null is returned exactly when block 0's timestamp is >= target.
C4_NullIffGenesisNotBefore ==
    (Monotone /\ InSearchRange /\ Returned) =>
        (outcome = "notFound" <=> ~Qualifies(0))

\* C4: both sides seen after a search of several probes: null with block 0 at
\* the target or later
C4_NullAfterSearch ==
    /\ Monotone /\ InSearchRange /\ Returned
    /\ outcome = "notFound"
    /\ Searched
    /\ Len(calls) >= 4

\* C5: once an RPC has failed (the latest height, the latest block or a probe,
\* a missing block included) the run is over with the error: no request is
\* outstanding or sent afterwards, and neither null nor a candidate recorded
\* before the failure is returned.
C5_OracleFailureIsFatal ==
    /\ [](OracleFailed =>
            /\ pc = "exit"
            /\ outcome = "error"
            /\ result = Null
            /\ pending = <<>>
            /\ Len(calls) = Len(answers))
    /\ [][OracleFailed => calls' = calls /\ outcome' = outcome]_vars

\* C5: the second probe failed after the first had recorded a candidate
C5_SecondProbeFailed ==
    /\ Len(answers) = 4
    /\ answers[3] = "ok"
    /\ answers[4] \in {"missing", "httpError"}
    /\ candidate # Null
    /\ outcome = "error"

\* the date expression is one the parser rejects
Unparseable(input) ==
    \/ input.kind = "date" /\ ~input.valid
    \/ input.kind = "literal" /\ ~NumberIsFinite(input)

\* C6: when the date expression cannot be parsed no request is ever sent, and
\* the run ends with the error.
C6_InvalidInputBeforeSearch ==
    Unparseable(dateInput) =>
        /\ calls = <<>>
        /\ pending = <<>>
        /\ pc \in {"main", "exit"}
        /\ pc = "exit" => outcome = "error"

\* C6: a run with an unparseable date has ended
C6_InvalidInputSeen ==
    /\ Unparseable(dateInput)
    /\ pc = "exit"
    /\ outcome = "error"
    /\ calls = <<>>

\* the block asked for by the outstanding request
AwaitedBlock == RpcBlock(HexValue(Head(pending).params[1].hex))

\* C8: at most one request is outstanding; a request is sent only when none is
\* outstanding or in the step that takes the successful answer of the one
\* before; lo, hi and candidate change only in a step that takes such an
\* answer, to values fixed by the answered block.
C8_Sequential ==
    /\ [](Len(pending) <= 1 /\ Len(answers) = Len(calls) - Len(pending))
    /\ [][calls' # calls =>
            /\ Len(pending') = 1
            /\ calls' = Append(calls, pending'[1])
            /\ \/ pending = <<>> /\ calls = <<>>
               \/ Len(pending) = 1 /\ answers' = Append(answers, "ok")]_vars
    /\ [][/\ pc \notin {"latest", "probe"} => UNCHANGED <<lo, hi, candidate>>
          /\ answers' # Append(answers, "ok") => UNCHANGED <<lo, hi, candidate>>
          /\ (pc = "latest" /\ pc' = "probe") =>
                lo' = 0 /\ hi' = LatestHeight /\ candidate' = Null
          /\ (pc = "probe" /\ answers' = Append(answers, "ok")) =>
                IF NumLT(Num(chain[mid + 1]), targetSec)
                THEN /\ lo' = mid + 1
                     /\ hi' = hi
                     /\ candidate' = [n |-> mid, ts |-> chain[mid + 1],
                                      hash |-> AwaitedBlock.hash]
                ELSE /\ lo' = lo
                     /\ hi' = mid - 1
                     /\ candidate' = candidate]_vars

\* C8: the third probe is outstanding alone, after two answered ones
C8_ThirdProbeOutstanding ==
    /\ pc = "probe"
    /\ Len(calls) = 5
    /\ Len(pending) = 1
    /\ Len(answers) = 4
    /\ candidate # Null

\* C9: with an endpoint that answers every request the run ends, the loop
\* with lo > hi; every probe has 0 <= lo <= mid <= hi <= latestHeight; every
\* answered probe strictly shrinks [lo, hi]; the loop asks for no height
\* twice and sends at most floor(log2(latestHeight + 1)) + 1 probes.
C9_Terminates ==
    /\ <>(pc = "exit")
    /\ [](pc = "probe" =>
            /\ 0 <= lo /\ lo <= mid /\ mid <= hi /\ hi <= LatestHeight
            /\ Probes[Len(Probes)] = mid)
    /\ [][(pc = "probe" /\ answers' = Append(answers, "ok")) =>
            hi' - lo' < hi - lo]_vars
    /\ [](\A i, j \in DOMAIN Probes : i # j => Probes[i] # Probes[j])
    /\ [](Len(Probes) <= Log2Floor(LatestHeight + 1) + 1)
    /\ []((pc = "exit" /\ Searched /\ ~OracleFailed) => lo > hi)

\* C9: a search on the longest chain ended after exactly
\* floor(log2(latestHeight + 1)) + 1 probes
C9_ProbeBoundReached ==
    /\ pc = "exit"
    /\ ~OracleFailed
    /\ LatestHeight = MaxHeight
    /\ Len(calls) - 2 = Log2Floor(LatestHeight + 1) + 1

\* C10: whatever the order of the timestamps, a returned block was returned by
\* the endpoint for the returned height in this run and its timestamp is
\* strictly below the target; in the loop candidate is null exactly when
\* lo = 0 and otherwise its height is lo - 1.
C10_CandidateTracksLo ==
    /\ outcome = "found" =>
        /\ \E o \in observed :
              /\ o.height = result.number
              /\ o.block.hash = result.hash
              /\ TimestampOf(o.block) = result.timestamp
        /\ NumLT(Num(result.timestamp), targetSec)
    /\ Searched =>
        /\ candidate = Null <=> lo = 0
        /\ candidate # Null => candidate.n = lo - 1

\* C10: on a chain whose timestamps go down somewhere, the search returned a
\* block although a greater height also lies before the target
C10_NonMonotoneSeen ==
    /\ ~Monotone
    /\ Searched
    /\ outcome = "found"
    /\ candidate # Null
    /\ \E h \in 0..LatestHeight : h > result.number /\ Qualifies(h)

====
